---------------------------- MODULE Spec2Model ----------------------------
(***************************************************************************)
(* A model of server.py (Sanic "ERP_System"): the schema-driven CRUD       *)
(* handlers show_table, show_add_form, create_row and delete_row, the      *)
(* login handler process_login, the helper log_action, and the             *)
(* foreign-key lookup get_dropdown_options.                                *)
(*                                                                         *)
(* Every `await` of a handler is a step of its own, so that requests and   *)
(* catalog changes interleave exactly where the event loop can switch.     *)
(* Names are Python strings, modelled as TLA+ strings (Len, SubSeq, \o).   *)
(***************************************************************************)
EXTENDS Integers, Sequences, FiniteSets, Bags, TLC

VARIABLES
    catalog,      \* the phc_ tables that exist in the public schema
    db,           \* table name -> bag of rows (row: column -> value)
    pc,           \* request slot -> position in its handler
    req,          \* request slot -> the request: handler, <table_name>,
                  \*   request.json (by its position in Payloads), <pk_val>,
                  \*   auth_token cookie
    loc,          \* request slot -> the handler's local variables, the
                  \*   statements it has run on the named table and the
                  \*   row count its DELETE returned
    resp,         \* request slot -> the response, once the handler ended
    fk_column_name, \* lookup: the foreign-key column being resolved
    registry,       \* lookup: what get_allowed_tables returns, in order
    target_columns, \* lookup: what the column query of the target returns
    all_tables,     \* lookup: the registry list, once fetched
    target_table,   \* lookup: resolved target table or None
    col_names,      \* lookup: the target's column names, once fetched
    pk_col,         \* lookup: chosen key column or None
    label_col,      \* lookup: chosen display column or None
    options,        \* lookup: the result: None or "rows"
    lpc             \* lookup: position in get_dropdown_options

crudVars == <<catalog, db, pc, req, loc, resp>>
lookupVars == <<fk_column_name, registry, target_columns, all_tables,
                target_table, col_names, pk_col, label_col, options, lpc>>
vars == <<crudVars, lookupVars>>

---------------------------------------------------------------------------
(* Python values and string methods                                        *)

\* Python's None where a name is expected (a column, a table, a data type):
\* no name of the catalog is the empty text.  Values that come from the
\* client are tagged instead (NullV below), so that no text a client sends
\* is taken for None.
None == ""

\* JSON / Python values, tagged so that values of different types compare.
StrV(s) == [tag |-> "str", s |-> s, n |-> 0]
IntV(n) == [tag |-> "int", s |-> "", n |-> n]
DateV(y, m, d) == [tag |-> "date", s |-> "", n |-> y * 10000 + m * 100 + d]
NullV == [tag |-> "null", s |-> "", n |-> 0]

\* the character at position i (1-based), "" when there is none
CharAt(s, i) == IF 1 <= i /\ i <= Len(s) THEN SubSeq(s, i, i) ELSE ""

\* str.endswith(suffix)
EndsWith(s, suf) ==
    Len(s) >= Len(suf) /\ SubSeq(s, Len(s) - Len(suf) + 1, Len(s)) = suf

\* str.startswith(prefix)
StartsWith(s, pre) == Len(s) >= Len(pre) /\ SubSeq(s, 1, Len(pre)) = pre

\* `sub in s`
Contains(s, sub) ==
    \E i \in 1..(Len(s) - Len(sub) + 1) : SubSeq(s, i, i + Len(sub) - 1) = sub

Digits == {"0", "1", "2", "3", "4", "5", "6", "7", "8", "9"}

DigitVal(c) ==
    CASE c = "0" -> 0 [] c = "1" -> 1 [] c = "2" -> 2 [] c = "3" -> 3
      [] c = "4" -> 4 [] c = "5" -> 5 [] c = "6" -> 6 [] c = "7" -> 7
      [] c = "8" -> 8 [] c = "9" -> 9

\* Strings are taken over the characters below U+0100.  Of these,
\* str.isdigit() holds of 0-9 and of the superscripts ¹ ² ³, which int()
\* and the \d of strptime do not take as digits.
DigitChars == Digits \cup {"¹", "²", "³"}

\* str.isdigit(): non-empty and every character a digit
IsDigit(s) == Len(s) > 0 /\ \A i \in 1..Len(s) : CharAt(s, i) \in DigitChars

\* non-empty and every character one of 0-9
IsDecimal(s) == Len(s) > 0 /\ \A i \in 1..Len(s) : CharAt(s, i) \in Digits

\* the number a digit string denotes
RECURSIVE DigitsVal(_)
DigitsVal(s) ==
    IF Len(s) = 0 THEN 0
    ELSE 10 * DigitsVal(SubSeq(s, 1, Len(s) - 1)) + DigitVal(CharAt(s, Len(s)))

\* the characters below U+0100 with str.isspace(): blank, \t, \n, \r, \f,
\* and, written raw, \x0b, \x1c, \x1d, \x1e, \x1f, \x85, \xa0
Whitespace ==
    {" ", "\t", "\n", "\r", "\f",
     "", "", "", "", "", "", " "}

\* str.lstrip(), str.rstrip(), str.strip(): whitespace removed at the ends
RECURSIVE LStrip(_)
LStrip(s) ==
    IF Len(s) > 0 /\ CharAt(s, 1) \in Whitespace
    THEN LStrip(SubSeq(s, 2, Len(s))) ELSE s

RECURSIVE RStrip(_)
RStrip(s) ==
    IF Len(s) > 0 /\ CharAt(s, Len(s)) \in Whitespace
    THEN RStrip(SubSeq(s, 1, Len(s) - 1)) ELSE s

Strip(s) == LStrip(RStrip(s))

\* what int(str) strips at the ends of its text: the whitespace above
\* without \x1c, \x1d, \x1e, \x1f, which int() does not accept
IntWhitespace == Whitespace \ {"", "", "", ""}

RECURSIVE IntLStrip(_)
IntLStrip(s) ==
    IF Len(s) > 0 /\ CharAt(s, 1) \in IntWhitespace
    THEN IntLStrip(SubSeq(s, 2, Len(s))) ELSE s

RECURSIVE IntRStrip(_)
IntRStrip(s) ==
    IF Len(s) > 0 /\ CharAt(s, Len(s)) \in IntWhitespace
    THEN IntRStrip(SubSeq(s, 1, Len(s) - 1)) ELSE s

IntStrip(s) == IntLStrip(IntRStrip(s))

\* the text of int(str) after the whitespace at its ends and one sign
Unsigned(s) ==
    LET t == IntStrip(s)
    IN  IF StartsWith(t, "-") \/ StartsWith(t, "+")
        THEN SubSeq(t, 2, Len(t)) ELSE t

\* s with its underscores removed
RECURSIVE Ungrouped(_)
Ungrouped(s) ==
    IF Len(s) = 0 THEN ""
    ELSE IF CharAt(s, 1) = "_" THEN Ungrouped(SubSeq(s, 2, Len(s)))
    ELSE CharAt(s, 1) \o Ungrouped(SubSeq(s, 2, Len(s)))

\* int(str): whitespace stripped, an optional sign, then digits 0-9 that
\* single underscores may group ('1_0' is 10; '_1', '1_', '1__0' are not
\* numbers); else ValueError
PyIntOk(s) ==
    LET u == Unsigned(s)
    IN  /\ Len(u) > 0
        /\ \A i \in 1..Len(u) : CharAt(u, i) \in Digits \cup {"_"}
        /\ CharAt(u, 1) # "_" /\ CharAt(u, Len(u)) # "_"
        /\ \A i \in 1..(Len(u) - 1) :
              ~(CharAt(u, i) = "_" /\ CharAt(u, i + 1) = "_")

PyInt(s) ==
    IF StartsWith(IntStrip(s), "-")
    THEN 0 - DigitsVal(Ungrouped(Unsigned(s)))
    ELSE DigitsVal(Ungrouped(Unsigned(s)))

IsLeap(y) == (y % 4 = 0 /\ y % 100 # 0) \/ y % 400 = 0

DaysInMonth(y, m) ==
    IF m = 2 THEN (IF IsLeap(y) THEN 29 ELSE 28)
    ELSE IF m \in {4, 6, 9, 11} THEN 30 ELSE 31

\* datetime.strptime(v, '%Y-%m-%d'): the directive patterns are
\*   %Y  \d\d\d\d
\*   %m  1[0-2] | 0[1-9] | [1-9]
\*   %d  3[01] | [12]\d | 0[1-9] | [1-9] | " "[1-9]
\* matched from the start, the whole text consumed, then the date built.
MonthLen(s) ==
    LET a == CharAt(s, 6)
        b == CharAt(s, 7)
    IN  IF a = "1" /\ b \in {"0", "1", "2"} THEN 2
        ELSE IF a = "0" /\ b \in (Digits \ {"0"}) THEN 2
        ELSE IF a \in (Digits \ {"0"}) THEN 1
        ELSE 0

DayLen(s, p) ==
    LET a == CharAt(s, p)
        b == CharAt(s, p + 1)
    IN  IF a = "3" /\ b \in {"0", "1"} THEN 2
        ELSE IF a \in {"1", "2"} /\ b \in Digits THEN 2
        ELSE IF a = "0" /\ b \in (Digits \ {"0"}) THEN 2
        ELSE IF a \in (Digits \ {"0"}) THEN 1
        ELSE IF a = " " /\ b \in (Digits \ {"0"}) THEN 2
        ELSE 0

\* <<ok, year, month, day>> of the regular-expression match
StrptimeMatch(s) ==
    IF ~(Len(s) >= 5 /\ IsDecimal(SubSeq(s, 1, 4)) /\ CharAt(s, 5) = "-")
    THEN <<FALSE, 0, 0, 0>>
    ELSE LET ml == MonthLen(s)
         IN  IF ml = 0 \/ CharAt(s, 6 + ml) # "-" THEN <<FALSE, 0, 0, 0>>
             ELSE LET p == 7 + ml
                      dl == DayLen(s, p)
                  IN  IF dl = 0 \/ p + dl - 1 # Len(s) THEN <<FALSE, 0, 0, 0>>
                      ELSE <<TRUE,
                             DigitsVal(SubSeq(s, 1, 4)),
                             DigitsVal(SubSeq(s, 6, 5 + ml)),
                             DigitsVal(LStrip(SubSeq(s, p, p + dl - 1)))>>

\* strptime succeeds: the text matches and names a real calendar day
StrptimeOk(s) ==
    LET r == StrptimeMatch(s)
    IN  r[1] /\ r[2] >= 1 /\ r[4] <= DaysInMonth(r[2], r[3])

StrptimeDate(s) ==
    LET r == StrptimeMatch(s) IN DateV(r[2], r[3], r[4])

---------------------------------------------------------------------------
(* The database: catalog metadata and table contents                       *)

\* Bounds of the model.
MaxRows == 2        \* rows a table may hold before writes stop arriving
MaxKey == 3         \* greatest key a table may hold before creates stop
Req == {1, 2}       \* request slots: the connections of the pool

\* the table log_action writes to; its name has the phc_ prefix, so it is
\* in the registry like any other table
LogTable == "phc_user_log_t"

\* Tables that can exist in the public schema, with their catalog metadata
\* (information_schema.columns in ordinal order, and the PRIMARY KEY
\* constraint).  phc_items_t has an integer key, audit columns and a date
\* column; phc_notes_t has no primary key and no audit column;
\* phc_user_log_t has the columns log_action names and a key column the
\* database fills in.
Tables == {"phc_items_t", "phc_notes_t", LogTable}

Columns(t) ==
    IF t = "phc_items_t"
    THEN << [column_name |-> "pit_item_id",     data_type |-> "integer"],
            [column_name |-> "pit_name",        data_type |-> "text"],
            [column_name |-> "pit_start_date",  data_type |-> "date"],
            [column_name |-> "pit_created",     data_type |-> "date"],
            [column_name |-> "pit_modified",    data_type |-> "date"],
            [column_name |-> "pit_created_by",  data_type |-> "text"],
            [column_name |-> "pit_modified_by", data_type |-> "text"] >>
    ELSE IF t = "phc_notes_t"
    THEN << [column_name |-> "pnt_item_id",  data_type |-> "integer"],
            [column_name |-> "pnt_text",     data_type |-> "text"],
            [column_name |-> "pnt_due_date", data_type |-> "date"] >>
    ELSE IF t = LogTable
    THEN << [column_name |-> "pul_log_id",      data_type |-> "integer"],
            [column_name |-> "pul_parent",      data_type |-> "integer"],
            [column_name |-> "pul_description", data_type |-> "text"],
            [column_name |-> "pul_created",
             data_type |-> "timestamp without time zone"],
            [column_name |-> "pul_modified",
             data_type |-> "timestamp without time zone"],
            [column_name |-> "pul_created_by",  data_type |-> "text"],
            [column_name |-> "pul_modified_by", data_type |-> "text"] >>
    ELSE << >>

PrimaryKey(t) ==
    IF t = "phc_items_t" THEN "pit_item_id"
    ELSE IF t = LogTable THEN "pul_log_id"
    ELSE None

\* Table names a request may carry: the tables above and one name that is
\* never in the registry.
TableNames == Tables \cup {"users"}

Range(seq) == {seq[i] : i \in 1..Len(seq)}

ColumnNames(t) == {c.column_name : c \in Range(Columns(t))}

\* get_allowed_tables: the phc_ tables of the public schema
GetAllowedTables(cat) == cat

\* SELECT column_name, data_type FROM information_schema.columns
\*   WHERE table_name = $1
FetchColumns(cat, t) == IF t \in cat THEN Columns(t) ELSE << >>

\* SELECT kcu.column_name ... WHERE constraint_type = 'PRIMARY KEY'
FetchPrimaryKey(cat, t) == IF t \in cat THEN PrimaryKey(t) ELSE None

\* SELECT data_type FROM information_schema.columns
\*   WHERE table_name = $1 AND column_name = $2
FetchColumnType(cat, t, c) ==
    LET hit == {x \in Range(FetchColumns(cat, t)) : x.column_name = c}
    IN  IF hit = {} THEN None ELSE (CHOOSE x \in hit : TRUE).data_type

\* schema_map.get(k, {}).get('data_type')
TypeOf(schema, k) ==
    LET hit == {x \in Range(schema) : x.column_name = k}
    IN  IF hit = {} THEN None ELSE (CHOOSE x \in hit : TRUE).data_type

NumericTypes == {"integer", "bigint", "numeric", "smallint"}

\* asyncpg encodes a query argument only if its Python type fits the column
ArgFits(type, v) ==
    \/ v.tag = "null"
    \/ type \in NumericTypes /\ v.tag = "int"
    \/ type = "date" /\ v.tag = "date"
    \/ type = "text" /\ v.tag = "str"

\* ordered dict: keys, lookup, assignment (d[k] = v keeps k's position)
Keys(d) == {d[i][1] : i \in 1..Len(d)}

Get(d, k) == (CHOOSE i \in 1..Len(d) : d[i][1] = k)

DictSet(d, k, v) ==
    IF k \in Keys(d)
    THEN [i \in 1..Len(d) |-> IF d[i][1] = k THEN <<k, v>> ELSE d[i]]
    ELSE Append(d, <<k, v>>)

Rows(t) == IF t \in Tables THEN BagToSet(db[t]) ELSE {}

RowCount(t) == IF t \in Tables THEN BagCardinality(db[t]) ELSE 0

\* SELECT MAX(pk) FROM t: NULL on an empty table
SelectMax(t, pk) ==
    IF Rows(t) = {} THEN NullV
    ELSE IntV(CHOOSE m \in {row[pk].n : row \in Rows(t)} :
                  \A row \in Rows(t) : row[pk].n <= m)

\* The error, if any, the database raises for
\*   INSERT INTO t (cols of cd) VALUES (vals of cd);  "" when it is accepted.
InsertError(cat, t, cd) ==
    IF t \notin cat THEN "relation does not exist"
    ELSE IF ~(Keys(cd) \subseteq ColumnNames(t)) THEN "column does not exist"
    ELSE IF \E i \in 1..Len(cd) :
                ~ArgFits(FetchColumnType(cat, t, cd[i][1]), cd[i][2])
         THEN "invalid input for query argument"
    ELSE IF /\ PrimaryKey(t) # None
            /\ (PrimaryKey(t) \in Keys(cd)
                   => cd[Get(cd, PrimaryKey(t))][2] = NullV)
         THEN "null value in column violates not-null constraint"
    ELSE IF /\ PrimaryKey(t) # None
            /\ \E row \in Rows(t) :
                   row[PrimaryKey(t)] = cd[Get(cd, PrimaryKey(t))][2]
         THEN "duplicate key value violates unique constraint"
    ELSE ""

\* the row an accepted INSERT adds: unnamed columns are NULL
NewRow(t, cd) ==
    [c \in ColumnNames(t) |->
        IF c \in Keys(cd) THEN cd[Get(cd, c)][2] ELSE NullV]

\* rows matched by DELETE FROM t WHERE pk = key
Matching(t, pk, key) == {row \in Rows(t) : row[pk] = key}

\* the bag of t without the rows in `gone`
Without(t, gone) ==
    LET keep == Rows(t) \ gone
    IN  [row \in keep |-> CopiesIn(row, db[t])]

\* The error, if any, of DELETE FROM t WHERE pk = $1
DeleteError(cat, t, pk, key) ==
    IF t \notin cat THEN "relation does not exist"
    ELSE IF ~ArgFits(FetchColumnType(cat, t, pk), key)
         THEN "invalid input for query argument"
    ELSE ""

\* NOW(): the time of the statement; time is not modelled
Now == [tag |-> "timestamp", s |-> "", n |-> 0]

\* The values the database may give the key column of a row inserted
\* without one: where its sequence stands is not visible to the program.
GeneratedKeys == 1..MaxKey

\* the row of
\*   INSERT INTO phc_user_log_t (pul_parent, pul_description, pul_created,
\*     pul_modified, pul_created_by, pul_modified_by)
\*   VALUES ($1, $2, NOW(), NOW(), 'System', 'System')
\* with the key k the database generated
LogRow(k, parent, description) ==
    [c \in ColumnNames(LogTable) |->
        CASE c = "pul_log_id"      -> IntV(k)
          [] c = "pul_parent"      -> parent
          [] c = "pul_description" -> StrV(description)
          [] c = "pul_created"     -> Now
          [] c = "pul_modified"    -> Now
          [] c = "pul_created_by"  -> StrV("System")
          [] c = "pul_modified_by" -> StrV("System")]

\* The error, if any, the database raises for that INSERT
LogInsertError(cat, k) ==
    IF LogTable \notin cat THEN "relation does not exist"
    ELSE IF \E row \in Rows(LogTable) : row["pul_log_id"] = IntV(k)
         THEN "duplicate key value violates unique constraint"
    ELSE ""

---------------------------------------------------------------------------
(* get_dropdown_options: the foreign-key lookup                            *)

\* base = fk_column_name[:-3]; the short-code segment is dropped when the
\* 4th character of base is an underscore
Entity(fk) ==
    LET base == IF Len(fk) > 3 THEN SubSeq(fk, 1, Len(fk) - 3) ELSE ""
    IN  IF Len(base) > 4 /\ CharAt(base, 4) = "_"
        THEN SubSeq(base, 5, Len(base)) ELSE base

\* manual_map.get(entity)
ManualMap(entity) ==
    CASE entity = "dept"        -> "phc_dept_t"
      [] entity = "org"         -> "phc_orgs_t"
      [] entity = "services"    -> "phc_services_t"
      [] entity = "cost_center" -> "phc_cost_center_t"
      [] entity = "app"         -> "phc_apps_t"
      [] entity = "apps"        -> "phc_apps_t"
      [] OTHER                  -> None

\* possible_names: the naive pluralizations of the entity
PossibleNames(entity) ==
    {"phc_" \o entity \o "_t", "phc_" \o entity \o "s_t",
     "phc_" \o entity \o "es_t"}
    \cup (IF EndsWith(entity, "y")
          THEN {"phc_" \o SubSeq(entity, 1, Len(entity) - 1) \o "ies_t"}
          ELSE {})

\* for real_table in all_tables: if real_table in possible_names: ... break
ScanRegistry(tables, possible) ==
    LET hits == {i \in 1..Len(tables) : tables[i] \in possible}
    IN  IF hits = {} THEN None
        ELSE tables[CHOOSE i \in hits : \A j \in hits : i <= j]

\* the registry scan tried before the override map
TargetTableScanFirst(fk, tables) ==
    LET scanned == ScanRegistry(tables, PossibleNames(Entity(fk)))
    IN  IF scanned # None THEN scanned ELSE ManualMap(Entity(fk))

\* target_table: the override when the entity has one, else the first
\* registry entry among the pluralizations, else None
TargetTable(fk, tables) ==
    IF ManualMap(Entity(fk)) # None THEN ManualMap(Entity(fk))
    ELSE ScanRegistry(tables, PossibleNames(Entity(fk)))

\* next((c for i, c in enumerate(cols) if i + 1 in hits), default)
FirstOf(cols, hits, default) ==
    IF hits = {} THEN default
    ELSE cols[CHOOSE i \in hits : \A j \in hits : i <= j]

LabelWords == <<"name", "title", "code", "desc">>

IsKeyColumn(c) == EndsWith(c, "_id")

HasLabelWord(c) == \E i \in 1..Len(LabelWords) : Contains(c, LabelWords[i])

\* pk_col = next((c for c in col_names if c.endswith('_id')), None)
PkCol(cols) ==
    FirstOf(cols, {i \in 1..Len(cols) : IsKeyColumn(cols[i])}, None)

\* label_col = next((c for c in col_names if any(x in c for x in [...])),
\*                  pk_col)
LabelCol(cols) ==
    FirstOf(cols, {i \in 1..Len(cols) : HasLabelWord(cols[i])}, PkCol(cols))


---------------------------------------------------------------------------
(* Requests and responses                                                  *)

\* the handlers behind login_required
Ops == {"show_table", "show_add_form", "create_row", "delete_row"}

\* request.cookies.get("auth_token") without the cookie
NoCookie == NullV

\* auth_token cookie values: absent, a user id, a text that is no number
Tokens == {NoCookie, StrV("1001"), StrV("x1")}

\* <pk_val> path segments
PkVals == {"1", "0_2", "3", "1", "x1"}

\* request.json bodies: ordered (key, value) pairs.  A request holds its
\* body by its position in this list.
Payloads ==
    << << >>,
       << <<"pit_name", StrV("bolt")>> >>,
       << <<"pit_item_id", IntV(7)>>, <<"pit_name", StrV("bolt")>>,
          <<"pit_created", StrV("2024-02-30")>>,
          <<"pit_created_by", StrV("eve")>> >>,
       << <<"pit_item_id", StrV("9")>>, <<"pit_name", StrV("bolt")>>,
          <<"pit_created", StrV("2024-01-15")>>,
          <<"pit_created_by", StrV("bob")>> >>,
       << <<"pit_name", StrV("nut")>>,
          <<"pit_modified", StrV("2024-02-30")>>,
          <<"pit_modified_by", StrV("eve")>> >>,
       << <<"pit_name", StrV("nut")>>, <<"pit_modified", NullV>>,
          <<"pit_modified_by", IntV(5)>> >>,
       << <<"pit_name", StrV("bolt")>>,
          <<"pit_start_date", StrV("2024-02-30")>> >>,
       << <<"pit_start_date", StrV("2024-02-30")>>,
          <<"pit_name", StrV("bolt")>> >>,
       << <<"pit_start_date", StrV("2024-02-29")>> >>,
       << <<"pit_start_date", StrV("")>>, <<"pit_name", NullV>> >>,
       << <<"pit_name", IntV(5)>> >>,
       << <<"pnt_item_id", StrV(" 1 \n")>>,
          <<"pnt_text", StrV("hi")>> >>,
       << <<"pnt_item_id", StrV("x1")>> >>,
       << <<"pnt_item_id", StrV("²")>>,
          <<"pnt_due_date", StrV("2024-02-30")>> >>,
       << <<"pnt_due_date", StrV("2024-2-3")>> >>,
       << <<"pul_description", StrV("hi")>> >>,
       << <<"username", StrV("admin")>>,
          <<"password", StrV("admin123")>> >>,
       << <<"username", StrV("admin")>>, <<"password", StrV("admin")>> >>,
       << <<"username", StrV("admin")>> >> >>

\* the requests without a body
NoBody == 0

\* data = request.json: None for a request without a body
RequestJson(r) ==
    IF req[r].data = NoBody THEN None ELSE Payloads[req[r].data]

\* what data.items() and data.get() raise on None
AttributeError == "'NoneType' object has no attribute"

NoRequest ==
    [op |-> "none", table_name |-> "", data |-> NoBody, pk_val |-> "",
     user_id |-> NoCookie]

\* `allowed` before get_allowed_tables has returned
Unset == {None}

NoLocals ==
    [allowed |-> Unset, pk_column |-> None, schema_map |-> << >>,
     clean_data |-> << >>, col_type |-> None, affected |-> 0,
     stmts |-> {}, logged |-> "not called",
     columns |-> << >>, i |-> 0, target_table |-> None,
     pk_col |-> None, label_col |-> None]

NoResponse == [kind |-> "none", status |-> 0, body |-> << >>]

\* response.json(body, status=...)
Json(status, body) == [kind |-> "json", status |-> status, body |-> body]

\* response.text(text, status=...)
Text(status, text) ==
    [kind |-> "text", status |-> status, body |-> [text |-> text]]

\* render(template, context=...); the rendered page itself is not modelled
Render(template, context) ==
    [kind |-> "html", status |-> 200,
     body |-> [template |-> template, context |-> context]]

\* response.redirect(to)
Redirect(to) == [kind |-> "redirect", status |-> 302, body |-> [to |-> to]]

\* an exception that leaves the handler: the framework answers, not the
\* handler
Unhandled(exc) ==
    [kind |-> "unhandled", status |-> 500, body |-> [exception |-> exc]]

ConnectionError == "connection was closed"

InFlight(r) == pc[r] \notin {"idle", "done"}

Done(r) == pc[r] = "done"

Writers == {"create_row", "delete_row"}

\* int(user_id) if user_id else None: the conversion raises ValueError
\* (user_id is the cookie, a text or None, or the int process_login passes)
LogRaises(user_id) ==
    user_id.tag = "str" /\ user_id.s # "" /\ ~PyIntOk(user_id.s)

\* The rows a request of handler o on table t2 with cookie u may add to
\* table t: the row of a create, and the row log_action writes for a
\* create, a delete or a login.
Adds(o, t2, u, t) ==
    (IF o = "create_row" /\ t2 = t THEN 1 ELSE 0)
    + (IF /\ t = LogTable
          /\ o = "process_login" \/ (o \in Writers /\ ~LogRaises(u))
       THEN 1 ELSE 0)

\* the rows the requests in flight may add to t
Pending(t) ==
    Cardinality({q \in Req : /\ InFlight(q)
                             /\ Adds(req[q].op, req[q].table_name,
                                     req[q].user_id, t) > 0})
    + Cardinality({q \in Req : /\ InFlight(q)
                               /\ Adds(req[q].op, req[q].table_name,
                                       req[q].user_id, t) > 1})

\* Bound of the model: a request arrives only while every table it may add
\* rows to has room for them, up to cap rows, and a create only while the
\* keys of its table are below MaxKey.
HasRoom(o, t2, u, cap) ==
    \A t \in Tables :
        Adds(o, t2, u, t) > 0
        => /\ RowCount(t) + Pending(t) + Adds(o, t2, u, t) <= cap
           /\ (o = "create_row" /\ t2 = t /\ PrimaryKey(t) # None)
                 => \A row \in Rows(t) : row[PrimaryKey(t)].n < MaxKey

\* the registry test left out
InRegistryUnchecked(t, tables) == TRUE

\* `if table_name not in allowed`
InRegistry(t, tables) == t \in tables

\* The end of a handler: the response is returned.
Return(r, response) ==
    /\ resp' = [resp EXCEPT ![r] = response]
    /\ pc' = [pc EXCEPT ![r] = "done"]

Goto(r, label) ==
    /\ pc' = [pc EXCEPT ![r] = label]
    /\ UNCHANGED resp

\* pool.acquire(): the first free connection
FirstFree(r) == pc[r] = "idle" /\ \A q \in Req : pc[q] = "idle" => r <= q

\* A request arrives.  login_required answers a request without the
\* auth_token cookie with a redirect; otherwise the handler starts and
\* acquires a connection.
Arrive(r, o, t, d, k, u, cap) ==
    /\ FirstFree(r)
    /\ HasRoom(o, t, u, cap)
    /\ req' = [req EXCEPT ![r] = [op |-> o, table_name |-> t, data |-> d,
                                  pk_val |-> k, user_id |-> u]]
    /\ IF u = NoCookie \/ u = StrV("")
       THEN Return(r, Redirect("/login")) ELSE Goto(r, "allowed")
    /\ UNCHANGED <<catalog, db, loc, lookupVars>>

\* `async with` exit: the connection is released and the slot is free.
Close(r) ==
    /\ pc[r] = "done"
    /\ pc' = [pc EXCEPT ![r] = "idle"]
    /\ req' = [req EXCEPT ![r] = NoRequest]
    /\ loc' = [loc EXCEPT ![r] = NoLocals]
    /\ resp' = [resp EXCEPT ![r] = NoResponse]
    /\ UNCHANGED <<catalog, db, lookupVars>>

\* allowed = await get_allowed_tables(conn)
\* if table_name not in allowed: return <invalid>
CheckRegistry(r, o, invalid, next) ==
    /\ pc[r] = "allowed"
    /\ req[r].op = o
    /\ \E ok \in BOOLEAN :
         IF ~ok
         THEN Return(r, Unhandled(ConnectionError)) /\ UNCHANGED loc
         ELSE /\ loc' = [loc EXCEPT ![r].allowed = GetAllowedTables(catalog)]
              /\ IF ~InRegistry(req[r].table_name, GetAllowedTables(catalog))
                 THEN Return(r, invalid)
                 ELSE Goto(r, next)
    /\ UNCHANGED <<catalog, db, req, lookupVars>>

\* pk_row = await conn.fetchrow(<primary key constraint>)
\* pk_column = pk_row['column_name'] if pk_row else None
ReadPrimaryKey(r, o, next) ==
    /\ pc[r] = "pk"
    /\ req[r].op = o
    /\ \E ok \in BOOLEAN :
         IF ~ok
         THEN Return(r, Unhandled(ConnectionError)) /\ UNCHANGED loc
         ELSE /\ loc' = [loc EXCEPT ![r].pk_column =
                             FetchPrimaryKey(catalog, req[r].table_name)]
              /\ Goto(r, next)
    /\ UNCHANGED <<catalog, db, req, lookupVars>>

---------------------------------------------------------------------------
(* log_action                                                              *)

\* int(user_id) if user_id else None
LogParent(user_id) ==
    CASE user_id.tag = "str" /\ user_id.s # "" -> IntV(PyInt(user_id.s))
      [] user_id.tag = "int" /\ user_id.n # 0 -> user_id
      [] OTHER -> NullV

\* log_action without its own try block: its failure reaches the handler's
\* except clause
AfterLogRaising(outcome, response) ==
    IF outcome = "failed" THEN Json(500, [error |-> "log failed"])
    ELSE response

\* the response once log_action has returned, whatever its outcome
AfterLog(outcome, response) == response

\* await log_action(conn, user_id, action_desc), called after the write:
\* the arguments of conn.execute are evaluated first, so that a cookie
\* int() rejects ends log_action in its except clause without an await,
\* and the handler returns its response in the same step.
CallLogAction(r, user_id, response) ==
    IF LogRaises(user_id)
    THEN Return(r, AfterLog("failed", response))
    ELSE Goto(r, "log")

\* `logged` once log_action was called and could not reach its INSERT
LoggedAtCall(user_id) ==
    IF LogRaises(user_id) THEN "failed" ELSE "not called"

\* try: await conn.execute("INSERT INTO phc_user_log_t ...", parent, desc)
\* except Exception: print(...)      -- nothing is raised to the caller
\* then the handler returns its success response
LogAction(r, user_id, action_desc, response) ==
    \E ok \in BOOLEAN, k \in GeneratedKeys :
        LET e == IF ok THEN LogInsertError(catalog, k) ELSE ConnectionError
            outcome == IF e = "" THEN "logged" ELSE "failed"
            row == LogRow(k, LogParent(user_id), action_desc)
        IN  /\ db' = IF e = ""
                     THEN [db EXCEPT ![LogTable] = @ (+) SetToBag({row})]
                     ELSE db
            /\ loc' = [loc EXCEPT ![r].logged = outcome]
            /\ Return(r, AfterLog(outcome, response))

---------------------------------------------------------------------------
(* show_table                                                              *)

ShowTableCheck(r) ==
    CheckRegistry(r, "show_table", Text(400, "Invalid Table"), "cols")

\* col_rows = await conn.fetch(<columns ORDER BY ordinal_position>)
ShowTableColumns(r) ==
    /\ pc[r] = "cols"
    /\ req[r].op = "show_table"
    /\ \E ok \in BOOLEAN :
         IF ~ok
         THEN Return(r, Unhandled(ConnectionError)) /\ UNCHANGED loc
         ELSE /\ loc' = [loc EXCEPT ![r].schema_map =
                             FetchColumns(catalog, req[r].table_name)]
              /\ Goto(r, "pk")
    /\ UNCHANGED <<catalog, db, req, lookupVars>>

ShowTablePrimaryKey(r) == ReadPrimaryKey(r, "show_table", "rows")

\* LIMIT 100
Limit == 100

\* ORDER BY 1 DESC: row a may come before row b (NULLs come first)
Before(t, a, b) ==
    LET c == Columns(t)[1].column_name
    IN  a[c].tag = "null" \/ (b[c].tag # "null" /\ a[c].n >= b[c].n)

\* SELECT * FROM t ORDER BY 1 DESC LIMIT 100: the lists the query may
\* return.  Each row comes as often as the table holds it; rows equal in
\* the first column come in any order.
SelectAll(t) ==
    LET n == RowCount(t)
        sorted == {l \in [1..n -> Rows(t)] :
                     /\ \A row \in Rows(t) :
                           Cardinality({i \in 1..n : l[i] = row})
                             = CopiesIn(row, db[t])
                     /\ \A i, j \in 1..n :
                           i < j => Before(t, l[i], l[j])}
    IN  {SubSeq(l, 1, IF n < Limit THEN n ELSE Limit) : l \in sorted}

\* data_rows = await conn.fetch("SELECT * FROM t ORDER BY 1 DESC LIMIT 100")
\* return await render("table_view.html", ...)
ShowTableRows(r) ==
    /\ pc[r] = "rows"
    /\ req[r].op = "show_table"
    /\ loc' = [loc EXCEPT ![r].stmts = @ \cup {"SELECT *"}]
    /\ \E ok \in BOOLEAN :
         IF ~ok THEN Return(r, Unhandled(ConnectionError))
         ELSE IF req[r].table_name \notin catalog
         THEN Return(r, Unhandled("relation does not exist"))
         ELSE \E data_rows \in SelectAll(req[r].table_name) :
                 Return(r, Render("table_view.html",
                                  [table_name |-> req[r].table_name,
                                   rows |-> data_rows,
                                   all_tables |-> loc[r].allowed,
                                   pk_column |-> loc[r].pk_column]))
    /\ UNCHANGED <<catalog, db, req, lookupVars>>

---------------------------------------------------------------------------
(* show_add_form                                                           *)

AuditSuffixes == {"_created", "_modified", "_created_by", "_modified_by"}

\* k.endswith(('_created', '_modified', '_created_by', '_modified_by'))
IsAuditColumn(k) == \E suf \in AuditSuffixes : EndsWith(k, suf)

\* the registry as a list, in the catalog's own (fixed) order
RegistryList(cat) ==
    CHOOSE seq \in [1..Cardinality(cat) -> cat] : Range(seq) = cat

Names(schema) == [i \in 1..Len(schema) |-> schema[i].column_name]

\* str(value)
RECURSIVE NatToStr(_)
NatToStr(n) ==
    LET d == CHOOSE c \in Digits : DigitVal(c) = n % 10
    IN  IF n < 10 THEN d ELSE NatToStr(n \div 10) \o d

PyStr(v) ==
    CASE v.tag = "str"  -> v.s
      [] v.tag = "int"  -> IF v.n < 0 THEN "-" \o NatToStr(0 - v.n)
                           ELSE NatToStr(v.n)
      [] v.tag = "null" -> "None"
      [] v.tag = "date" -> NatToStr((v.n \div 10000000) % 10)
                           \o NatToStr((v.n \div 1000000) % 10)
                           \o NatToStr((v.n \div 100000) % 10)
                           \o NatToStr((v.n \div 10000) % 10) \o "-"
                           \o NatToStr((v.n \div 1000) % 10)
                           \o NatToStr((v.n \div 100) % 10) \o "-"
                           \o NatToStr((v.n \div 10) % 10)
                           \o NatToStr(v.n % 10)

\* col_data of one column; options is the set of id/name pairs, empty when
\* get_dropdown_options gave None or no row (`if opts`)
ColData(c, opts) ==
    [column_name |-> c.column_name, data_type |-> c.data_type,
     options |-> opts]

\* The loop over col_rows from row i on, up to the next await: key and
\* audit columns are left out, other columns are appended, and the loop
\* stops at the first ..._id column, whose options have to be fetched.
RECURSIVE FormScan(_, _, _, _)
FormScan(schema, i, pk, acc) ==
    IF i > Len(schema) THEN [i |-> i, columns |-> acc]
    ELSE IF schema[i].column_name = pk \/ IsAuditColumn(schema[i].column_name)
    THEN FormScan(schema, i + 1, pk, acc)
    ELSE IF IsKeyColumn(schema[i].column_name)
    THEN [i |-> i, columns |-> acc]
    ELSE FormScan(schema, i + 1, pk, Append(acc, ColData(schema[i], {})))

\* The handler runs on from row i with the locals l: to the first await of
\* get_dropdown_options for the next ..._id column (line 115 when the
\* entity has an override, line 109 otherwise), or to the render at the end.
FormLoop(r, l, i, acc) ==
    LET s == FormScan(l.schema_map, i, l.pk_column, acc)
    IN  IF s.i > Len(l.schema_map)
        THEN /\ loc' = [loc EXCEPT ![r] =
                          [l EXCEPT !.columns = s.columns, !.i = s.i]]
             /\ Return(r, Render("form_view.html",
                                 [table_name |-> req[r].table_name,
                                  columns |-> s.columns,
                                  all_tables |-> l.allowed]))
        ELSE LET override ==
                     ManualMap(Entity(l.schema_map[s.i].column_name))
             IN  /\ loc' = [loc EXCEPT ![r] =
                              [l EXCEPT !.columns = s.columns, !.i = s.i,
                                        !.target_table = override,
                                        !.pk_col = None, !.label_col = None]]
                 /\ Goto(r, IF override # None THEN "dd_cols"
                            ELSE "dd_tables")

\* get_dropdown_options has returned opts for column i: the column is
\* appended and the loop goes on
FormAppend(r, l, opts) ==
    FormLoop(r, l, l.i + 1,
             Append(l.columns, ColData(l.schema_map[l.i], opts)))

ShowAddFormCheck(r) ==
    CheckRegistry(r, "show_add_form", Text(400, "Invalid Table"), "pk")

ShowAddFormPrimaryKey(r) == ReadPrimaryKey(r, "show_add_form", "form")

\* col_rows = await conn.fetch(<columns>), and the loop up to its first await
ShowAddFormColumns(r) ==
    /\ pc[r] = "form"
    /\ req[r].op = "show_add_form"
    /\ \E ok \in BOOLEAN :
         IF ~ok
         THEN Return(r, Unhandled(ConnectionError)) /\ UNCHANGED loc
         ELSE FormLoop(r, [loc[r] EXCEPT !.schema_map =
                              FetchColumns(catalog, req[r].table_name)],
                       1, << >>)
    /\ UNCHANGED <<catalog, db, req, lookupVars>>

\* get_dropdown_options: all_tables = await get_allowed_tables(conn), the
\* scan, `if not target_table: return None`; a failure is `except: return
\* None`
GetDropdownTables(r) ==
    /\ pc[r] = "dd_tables"
    /\ req[r].op = "show_add_form"
    /\ \E ok \in BOOLEAN :
         LET fk == loc[r].schema_map[loc[r].i].column_name
             t  == ScanRegistry(RegistryList(GetAllowedTables(catalog)),
                                PossibleNames(Entity(fk)))
         IN  IF ~ok \/ t = None THEN FormAppend(r, loc[r], {})
             ELSE /\ loc' = [loc EXCEPT ![r].target_table = t]
                  /\ Goto(r, "dd_cols")
    /\ UNCHANGED <<catalog, db, req, lookupVars>>

\* get_dropdown_options: cols = await conn.fetch(<column names>), pk_col,
\* label_col, `if not pk_col: return None`
GetDropdownColumns(r) ==
    /\ pc[r] = "dd_cols"
    /\ req[r].op = "show_add_form"
    /\ \E ok \in BOOLEAN :
         LET cols == Names(FetchColumns(catalog, loc[r].target_table))
         IN  IF ~ok \/ PkCol(cols) = None THEN FormAppend(r, loc[r], {})
             ELSE /\ loc' = [loc EXCEPT ![r].pk_col = PkCol(cols),
                                        ![r].label_col = LabelCol(cols)]
                  /\ Goto(r, "dd_rows")
    /\ UNCHANGED <<catalog, db, req, lookupVars>>

\* get_dropdown_options: rows = await conn.fetch("SELECT pk_col, label_col
\* FROM target_table ..."); return [{"id": ..., "name": str(...)}]; the
\* order and the LIMIT are not modelled
GetDropdownRows(r) ==
    /\ pc[r] = "dd_rows"
    /\ req[r].op = "show_add_form"
    /\ \E ok \in BOOLEAN :
         LET t == loc[r].target_table
             l == [loc[r] EXCEPT !.stmts =
                     @ \cup (IF t = req[r].table_name
                             THEN {"SELECT options"} ELSE {})]
         IN  IF ~ok \/ t \notin catalog THEN FormAppend(r, l, {})
             ELSE FormAppend(r, l,
                     {[id |-> row[l.pk_col],
                       name |-> PyStr(row[l.label_col])] : row \in Rows(t)})
    /\ UNCHANGED <<catalog, db, req, lookupVars>>

---------------------------------------------------------------------------
(* process_login                                                           *)

\* bcrypt's hash of a password; the hash function itself is not modelled
Hash(password) == "$2b$" \o password

\* bcrypt.checkpw(password, stored_hash)
CheckPw(password, stored_hash) == stored_hash = Hash(password)

\* The rows of phc_users_t.  The requests of the model do not write to it.
Users ==
    {[pus_user_name |-> "admin", pus_user_id |-> 1001,
      pus_pwd |-> Hash("admin123")]}

\* SELECT pus_user_id, pus_pwd FROM phc_users_t WHERE pus_user_name = $1
FetchUser(username) ==
    {user \in Users : username = StrV(user.pus_user_name)}

\* data.get(k)
DictGet(d, k) == IF k \in Keys(d) THEN d[Get(d, k)][2] ELSE NullV

\* the bodies of the login requests: none of the fields, the right
\* password, a wrong one, none
LoginPayloads == {1, 17, 18, 19}

\* resp.add_cookie("auth_token", value, httponly=True)
AddCookie(resp0, value) ==
    [kind |-> resp0.kind, status |-> resp0.status, body |-> resp0.body,
     auth_token |-> value]

\* resp = response.json({"status": "success"}) with the cookie of the user
LoginResponse(user) ==
    AddCookie(Json(200, [status |-> "success"]),
              PyStr(IntV(user.pus_user_id)))

\* f"User '{username}' logged in."
LoginDescription(username) == "User '" \o username \o "' logged in."

InvalidLogin == Json(401, [error |-> "Invalid Username or Password"])

\* POST /login arrives; the route is public.  data = request.json;
\* username = data.get("username"), which raises when there is no body.
ProcessLoginArrive(r, d, cap) ==
    /\ FirstFree(r)
    /\ HasRoom("process_login", "", NoCookie, cap)
    /\ req' = [req EXCEPT ![r] = [op |-> "process_login", table_name |-> "",
                                  data |-> d, pk_val |-> "",
                                  user_id |-> NoCookie]]
    /\ IF d = NoBody
       THEN Return(r, Unhandled(AttributeError)) ELSE Goto(r, "user")
    /\ UNCHANGED <<catalog, db, loc, lookupVars>>

\* user = await conn.fetchrow(<user by name>); if user: the password check
\* (password.encode raises when the body has no text for it); on success
\* the response with the cookie, and log_action up to its await
ProcessLoginUser(r) ==
    /\ pc[r] = "user"
    /\ req[r].op = "process_login"
    /\ \E ok \in BOOLEAN :
         LET username == DictGet(RequestJson(r), "username")
             password == DictGet(RequestJson(r), "password")
             found == FetchUser(username)
             user == CHOOSE u \in found : TRUE
         IN  IF ~ok
             THEN Return(r, Unhandled(ConnectionError)) /\ UNCHANGED loc
             ELSE IF found = {}
             THEN Return(r, InvalidLogin) /\ UNCHANGED loc
             ELSE IF password.tag # "str"
             THEN Return(r, Unhandled(AttributeError)) /\ UNCHANGED loc
             ELSE IF ~CheckPw(password.s, user.pus_pwd)
             THEN Return(r, InvalidLogin) /\ UNCHANGED loc
             ELSE /\ loc' = [loc EXCEPT ![r].logged =
                                LoggedAtCall(IntV(user.pus_user_id))]
                  /\ CallLogAction(r, IntV(user.pus_user_id),
                                   LoginResponse(user))
    /\ UNCHANGED <<catalog, db, req, lookupVars>>

\* log_action's INSERT; return resp
ProcessLoginLog(r) ==
    /\ pc[r] = "log"
    /\ req[r].op = "process_login"
    /\ LET username == DictGet(RequestJson(r), "username")
           user == CHOOSE u \in FetchUser(username) : TRUE
       IN  LogAction(r, IntV(user.pus_user_id), LoginDescription(username.s),
                     LoginResponse(user))
    /\ UNCHANGED <<catalog, req, lookupVars>>

---------------------------------------------------------------------------
(* create_row                                                              *)

\* the audit-suffix test left out of the `continue` condition
SkippedKeyOnly(k, v, pk) ==
    \/ v = StrV("")
    \/ v.tag = "null"
    \/ pk # None /\ k = pk

\* `continue`: the field is not supplied, is the key, or is an audit column
Skipped(k, v, pk) ==
    \/ v = StrV("")
    \/ v.tag = "null"
    \/ pk # None /\ k = pk
    \/ IsAuditColumn(k)

\* v.isdigit() or (v.startswith('-') and v[1:].isdigit())
LooksIntegral(v) ==
    IsDigit(v) \/ (StartsWith(v, "-") /\ IsDigit(SubSeq(v, 2, Len(v))))

\* clean_data[k] = value
Stored(value) == [error |-> "", raised |-> "", value |-> value]

\* what int() raises; the message is kept without the quoted argument
ValueError == "invalid literal for int()"

\* clean_data[k] = int(v) if v.isdigit() or (...) else v, v stripped: int(v)
\* is not in a try block, and raises on a text isdigit() accepts and int()
\* does not
CoerceNumeric(v) ==
    IF ~LooksIntegral(v) THEN Stored(StrV(v))
    ELSE IF PyIntOk(v) THEN Stored(IntV(PyInt(v)))
    ELSE [error |-> "", raised |-> ValueError, value |-> StrV(v)]

\* The value written for one field that is not skipped, or the error of the
\* 400 response that ends the request, or the exception that leaves the
\* handler.
CoerceField(type, v) ==
    IF type = "date" /\ v.tag = "str"
    THEN IF StrptimeOk(v.s)
         THEN Stored(StrptimeDate(v.s))
         ELSE [error |-> "Invalid date: " \o v.s, raised |-> "", value |-> v]
    ELSE IF type \in NumericTypes /\ v.tag = "str"
    THEN CoerceNumeric(Strip(v.s))
    ELSE Stored(v)

\* for k, v in data.items(): ...   from field i on, clean_data so far in acc
RECURSIVE Coerce(_, _, _, _, _)
Coerce(d, i, schema, pk, acc) ==
    IF i > Len(d) THEN [error |-> "", raised |-> "", clean_data |-> acc]
    ELSE IF Skipped(d[i][1], d[i][2], pk)
    THEN Coerce(d, i + 1, schema, pk, acc)
    ELSE LET c == CoerceField(TypeOf(schema, d[i][1]), d[i][2])
         IN  IF c.error # "" \/ c.raised # ""
             THEN [error |-> c.error, raised |-> c.raised, clean_data |-> acc]
             ELSE Coerce(d, i + 1, schema, pk,
                         DictSet(acc, d[i][1], c.value))

\* for col_name in schema_map:
\*     if col_name.endswith(('_created_by', '_modified_by')):
\*         clean_data[col_name] = 'System'
RECURSIVE InjectActors(_, _, _)
InjectActors(schema, i, cd) ==
    IF i > Len(schema) THEN cd
    ELSE InjectActors(schema, i + 1,
            IF \/ EndsWith(schema[i].column_name, "_created_by")
               \/ EndsWith(schema[i].column_name, "_modified_by")
            THEN DictSet(cd, schema[i].column_name, StrV("System"))
            ELSE cd)

\* (int(max_val) + 1) if max_val is not None else 1
NextId(max_val) == IF max_val.tag # "null" THEN max_val.n + 1 ELSE 1

\* `if not clean_data: return 400`, else on to the INSERT
InsertOrReject(r, cd) ==
    IF cd = << >>
    THEN Return(r, Json(400, [error |-> "No valid data provided"]))
    ELSE Goto(r, "insert")

CreateRowCheck(r) ==
    CheckRegistry(r, "create_row", Json(400, [error |-> "Invalid table"]),
                  "pk")

CreateRowPrimaryKey(r) == ReadPrimaryKey(r, "create_row", "schema")

\* schema_map = {...await conn.fetch(<columns>)}; the loop over the payload,
\* whose data.items() raises when the request has no body;
\* without a key column also the actor columns and the emptiness test
CreateRowCoerce(r) ==
    /\ pc[r] = "schema"
    /\ req[r].op = "create_row"
    /\ \E ok \in BOOLEAN :
         IF ~ok
         THEN Return(r, Unhandled(ConnectionError)) /\ UNCHANGED loc
         ELSE IF req[r].data = NoBody
         THEN /\ loc' = [loc EXCEPT ![r].schema_map =
                             FetchColumns(catalog, req[r].table_name)]
              /\ Return(r, Unhandled(AttributeError))
         ELSE LET schema == FetchColumns(catalog, req[r].table_name)
                  c == Coerce(RequestJson(r), 1, schema, loc[r].pk_column,
                              << >>)
                  cd == IF loc[r].pk_column # None THEN c.clean_data
                        ELSE InjectActors(schema, 1, c.clean_data)
              IN  /\ loc' = [loc EXCEPT ![r].schema_map = schema,
                                        ![r].clean_data = cd]
                  /\ IF c.raised # ""
                     THEN Return(r, Unhandled(c.raised))
                     ELSE IF c.error # ""
                     THEN Return(r, Json(400, [error |-> c.error]))
                     ELSE IF loc[r].pk_column # None THEN Goto(r, "max")
                     ELSE InsertOrReject(r, cd)
    /\ UNCHANGED <<catalog, db, req, lookupVars>>

\* max_val = await conn.fetchval("SELECT MAX(pk) FROM t")
\* clean_data[pk_column] = ...; the actor columns; the emptiness test
CreateRowNextId(r) ==
    /\ pc[r] = "max"
    /\ req[r].op = "create_row"
    /\ \E ok \in BOOLEAN :
         IF ~ok \/ req[r].table_name \notin catalog
         THEN /\ Return(r, Unhandled(IF ok THEN "relation does not exist"
                                     ELSE ConnectionError))
              /\ loc' = [loc EXCEPT ![r].stmts = @ \cup {"SELECT MAX"}]
         ELSE LET max_val == SelectMax(req[r].table_name, loc[r].pk_column)
                  cd == InjectActors(loc[r].schema_map, 1,
                            DictSet(loc[r].clean_data, loc[r].pk_column,
                                    IntV(NextId(max_val))))
              IN  /\ loc' = [loc EXCEPT ![r].stmts = @ \cup {"SELECT MAX"},
                                        ![r].clean_data = cd]
                  /\ InsertOrReject(r, cd)
    /\ UNCHANGED <<catalog, db, req, lookupVars>>

\* the statement outside the try block
StorageFailureUncaught(e) == Unhandled(e)

\* except Exception as e: return response.json({"error": str(e)}, status=500)
StorageFailure(e) == Json(500, [error |-> e])

\* f"Created new record in {table_name} (ID: {clean_data.get(pk_column, '?')})"
CreatedDescription(t, cd, pk) ==
    "Created new record in " \o t \o " (ID: "
    \o (IF pk # None /\ pk \in Keys(cd) THEN PyStr(cd[Get(cd, pk)][2])
        ELSE "?")
    \o ")"

\* try: await conn.execute("INSERT INTO t (...) VALUES (...)", *vals)
\*      await log_action(...), up to its await
CreateRowInsert(r) ==
    /\ pc[r] = "insert"
    /\ req[r].op = "create_row"
    /\ \E ok \in BOOLEAN :
         LET t == req[r].table_name
             e == IF ok THEN InsertError(catalog, t, loc[r].clean_data)
                  ELSE ConnectionError
         IN  IF e # ""
             THEN /\ Return(r, StorageFailure(e))
                  /\ loc' = [loc EXCEPT ![r].stmts = @ \cup {"INSERT"}]
                  /\ UNCHANGED db
             ELSE /\ db' = [db EXCEPT ![t] =
                              @ (+) SetToBag({NewRow(t, loc[r].clean_data)})]
                  /\ loc' = [loc EXCEPT ![r].stmts = @ \cup {"INSERT"},
                                        ![r].logged =
                                           LoggedAtCall(req[r].user_id)]
                  /\ CallLogAction(r, req[r].user_id,
                                   Json(200, [status |-> "success"]))
    /\ UNCHANGED <<catalog, req, lookupVars>>

\* log_action's INSERT; return response.json({"status": "success"})
CreateRowLog(r) ==
    /\ pc[r] = "log"
    /\ req[r].op = "create_row"
    /\ LogAction(r, req[r].user_id,
                 CreatedDescription(req[r].table_name, loc[r].clean_data,
                                    loc[r].pk_column),
                 Json(200, [status |-> "success"]))
    /\ UNCHANGED <<catalog, req, lookupVars>>

---------------------------------------------------------------------------
(* delete_row                                                              *)

DeleteRowCheck(r) ==
    CheckRegistry(r, "delete_row", Json(400, [error |-> "Invalid table"]),
                  "pk")

\* pk_row = await conn.fetchrow(<primary key constraint>)
\* if not pk_row: return 400
DeleteRowPrimaryKey(r) ==
    /\ pc[r] = "pk"
    /\ req[r].op = "delete_row"
    /\ \E ok \in BOOLEAN :
         IF ~ok
         THEN Return(r, Unhandled(ConnectionError)) /\ UNCHANGED loc
         ELSE LET pk == FetchPrimaryKey(catalog, req[r].table_name)
              IN  /\ loc' = [loc EXCEPT ![r].pk_column = pk]
                  /\ IF pk = None
                     THEN Return(r, Json(400,
                              [error |-> "Table has no Primary Key"]))
                     ELSE Goto(r, "coltype")
    /\ UNCHANGED <<catalog, db, req, lookupVars>>

\* col_type = await conn.fetchval(<data_type of the key column>)
\* try: if col_type in (...numeric...): pk_val = int(pk_val)
\*      -- a key int() rejects ends the request here, with the 500 of the
\*         except clause, before the await of the DELETE
DeleteRowColumnType(r) ==
    /\ pc[r] = "coltype"
    /\ req[r].op = "delete_row"
    /\ \E ok \in BOOLEAN :
         IF ~ok
         THEN Return(r, Unhandled(ConnectionError)) /\ UNCHANGED loc
         ELSE LET col_type == FetchColumnType(catalog, req[r].table_name,
                                              loc[r].pk_column)
              IN  /\ loc' = [loc EXCEPT ![r].col_type = col_type]
                  /\ IF col_type \in NumericTypes /\ ~PyIntOk(req[r].pk_val)
                     THEN Return(r, StorageFailure(ValueError))
                     ELSE Goto(r, "delete")
    /\ UNCHANGED <<catalog, db, req, lookupVars>>

\* the body of a successful delete's response; `affected` is the row count
\* of the DELETE, which conn.execute returns and the handler does not use
DeletedBody(affected) == [status |-> "deleted"]

\* pk_val = int(pk_val) if col_type in (...numeric...), else the text
PkVal(r) ==
    IF loc[r].col_type \in NumericTypes THEN IntV(PyInt(req[r].pk_val))
    ELSE StrV(req[r].pk_val)

\* f"Deleted record {pk_val} from {table_name}"
DeletedDescription(key, t) ==
    "Deleted record " \o PyStr(key) \o " from " \o t

\* await conn.execute("DELETE FROM t WHERE pk = $1", pk_val), pk_val
\* converted; await log_action(...), up to its await
DeleteRowExecute(r) ==
    /\ pc[r] = "delete"
    /\ req[r].op = "delete_row"
    /\ \E ok \in BOOLEAN :
         LET t   == req[r].table_name
             pk  == loc[r].pk_column
             key == PkVal(r)
             e   == IF ok THEN DeleteError(catalog, t, pk, key)
                    ELSE ConnectionError
         IN  IF e # ""
             THEN /\ Return(r, StorageFailure(e))
                  /\ loc' = [loc EXCEPT ![r].stmts = @ \cup {"DELETE"}]
                  /\ UNCHANGED db
             ELSE /\ db' = [db EXCEPT ![t] = Without(t, Matching(t, pk, key))]
                  /\ loc' = [loc EXCEPT
                        ![r].stmts = @ \cup {"DELETE"},
                        ![r].affected = Cardinality(Matching(t, pk, key)),
                        ![r].logged = LoggedAtCall(req[r].user_id)]
                  /\ CallLogAction(r, req[r].user_id, Json(200,
                        DeletedBody(Cardinality(Matching(t, pk, key)))))
    /\ UNCHANGED <<catalog, req, lookupVars>>

\* log_action's INSERT; return response.json({"status": "deleted"})
DeleteRowLog(r) ==
    /\ pc[r] = "log"
    /\ req[r].op = "delete_row"
    /\ LogAction(r, req[r].user_id,
                 DeletedDescription(PkVal(r), req[r].table_name),
                 Json(200, DeletedBody(loc[r].affected)))
    /\ UNCHANGED <<catalog, req, lookupVars>>

---------------------------------------------------------------------------
(* Tables are dropped between and during requests                          *)

\* DROP TABLE t, by a database administrator
DropTable(t) ==
    /\ t \in catalog
    /\ catalog' = catalog \ {t}
    /\ db' = [db EXCEPT ![t] = EmptyBag]
    /\ UNCHANGED <<pc, req, loc, resp, lookupVars>>

---------------------------------------------------------------------------
(* The server                                                              *)

LookupIdle ==
    /\ fk_column_name = "" /\ registry = << >> /\ target_columns = << >>
    /\ all_tables = << >> /\ target_table = None /\ col_names = << >>
    /\ pk_col = None /\ label_col = None /\ options = None
    /\ lpc = "idle"

Init ==
    /\ catalog = Tables
    /\ db = [t \in Tables |-> EmptyBag]
    /\ pc = [r \in Req |-> "idle"]
    /\ req = [r \in Req |-> NoRequest]
    /\ loc = [r \in Req |-> NoLocals]
    /\ resp = [r \in Req |-> NoResponse]
    /\ LookupIdle

\* one step of the handler that serves request r
Handle(r) ==
    \/ ShowTableCheck(r) \/ ShowTableColumns(r) \/ ShowTablePrimaryKey(r)
    \/ ShowTableRows(r)
    \/ ShowAddFormCheck(r) \/ ShowAddFormPrimaryKey(r)
    \/ ShowAddFormColumns(r) \/ GetDropdownTables(r)
    \/ GetDropdownColumns(r) \/ GetDropdownRows(r)
    \/ CreateRowCheck(r) \/ CreateRowPrimaryKey(r) \/ CreateRowCoerce(r)
    \/ CreateRowNextId(r) \/ CreateRowInsert(r) \/ CreateRowLog(r)
    \/ DeleteRowCheck(r) \/ DeleteRowPrimaryKey(r) \/ DeleteRowColumnType(r)
    \/ DeleteRowExecute(r) \/ DeleteRowLog(r)
    \/ ProcessLoginUser(r) \/ ProcessLoginLog(r)
    \/ Close(r)

\* A request arrives, whatever the requests in flight are doing: its
\* operation, table name, body, key segment and cookie are drawn from the
\* given sets (bodies by their position in Payloads).
ArriveFrom(r, ops, names, bodies, keys, tokens, cap) ==
    \E o \in ops, t \in names, u \in tokens :
        \E d \in (IF o = "create_row" THEN bodies \cup {NoBody}
                  ELSE {NoBody}),
           k \in (IF o = "delete_row" THEN keys ELSE {""}) :
             Arrive(r, o, t, d, k, u, cap)

\* the body of the creates that run beside other operations
EmptyPayloads == {1}

\* the key segments of the deletes: a number, a number behind a separator
\* that int() does not strip, and no number
SmallPkVals == {"1", "1", "x1"}

\* the tables that are dropped, and that the requests beside DDL name: the
\* keyed ones; the form is asked for every table
DdlTables == {"phc_items_t", LogTable}

ArriveAny(r) ==
    \/ ArriveFrom(r, Ops, DdlTables \cup (TableNames \ Tables),
                  EmptyPayloads, {"1"}, {NoCookie, StrV("1001")},
                  MaxRows - 1)
    \/ ArriveFrom(r, {"show_add_form"}, Tables \ DdlTables, {}, {},
                  {StrV("1001")}, MaxRows - 1)

\* a login arrives, with any of the given bodies or without one
ArriveLogin(r, bodies, cap) ==
    \E d \in bodies \cup {NoBody} : ProcessLoginArrive(r, d, cap)

Next ==
    \/ \E r \in Req : ArriveAny(r)
    \/ \E r \in Req : ArriveLogin(r, {17}, MaxRows - 1)
    \/ \E r \in Req : Handle(r)
    \/ \E t \in DdlTables : DropTable(t)

\* Requests of every kind and logins, served concurrently, tables being
\* dropped at any time.
Spec == Init /\ [][Next]_vars

---------------------------------------------------------------------------
(* Creates and deletes                                                     *)

ArriveWriter(r) ==
    ArriveFrom(r, Writers, Tables, EmptyPayloads, SmallPkVals,
               Tokens \ {NoCookie}, MaxRows - 1)

HandleWriter(r) ==
    \/ CreateRowCheck(r) \/ CreateRowPrimaryKey(r) \/ CreateRowCoerce(r)
    \/ CreateRowNextId(r) \/ CreateRowInsert(r) \/ CreateRowLog(r)
    \/ DeleteRowCheck(r) \/ DeleteRowPrimaryKey(r) \/ DeleteRowColumnType(r)
    \/ DeleteRowExecute(r) \/ DeleteRowLog(r)
    \/ ProcessLoginUser(r) \/ ProcessLoginLog(r)
    \/ Close(r)

NextWrite ==
    \/ \E r \in Req : ArriveWriter(r)
    \/ \E r \in Req : ArriveLogin(r, LoginPayloads, MaxRows - 1)
    \/ \E r \in Req : HandleWriter(r)

\* Creates and deletes on every table by logged-in clients, and logins,
\* served concurrently.
SpecWrite == Init /\ [][NextWrite]_vars

---------------------------------------------------------------------------
(* Creates with every body                                                 *)

\* the bodies that name columns of t only
BodiesFor(t) ==
    {d \in 1..Len(Payloads) :
        \A i \in 1..Len(Payloads[d]) : Payloads[d][i][1] \in ColumnNames(t)}

ArriveCreate(r) ==
    \E t \in Tables :
        ArriveFrom(r, {"create_row"}, {t}, BodiesFor(t), {""}, {StrV("1001")},
                   MaxRows - 1)

HandleCreate(r) ==
    \/ CreateRowCheck(r) \/ CreateRowPrimaryKey(r) \/ CreateRowCoerce(r)
    \/ CreateRowNextId(r) \/ CreateRowInsert(r) \/ CreateRowLog(r)
    \/ Close(r)

NextCreate ==
    \/ \E r \in Req : ArriveCreate(r)
    \/ \E r \in Req : HandleCreate(r)

\* Create requests with every body, on every table, their steps
\* interleaved at every await.
SpecCreate == Init /\ [][NextCreate]_vars

---------------------------------------------------------------------------
(* Two creates, one after the other                                        *)

KeyedTables == {t \in Tables : PrimaryKey(t) # None}

\* bodies the INSERT accepts
PlainPayloads == {1, 2, 16}

\* The first create arrives on a keyed table; the second arrives on the
\* same table once the first has been answered with success.  No other
\* request is served.
ArriveConsecutive(r) ==
    \/ /\ r = 1
       /\ \E t \in KeyedTables :
             ArriveFrom(r, {"create_row"}, {t}, BodiesFor(t) \cap PlainPayloads,
                        {""}, Tokens \ {NoCookie}, MaxRows + 1)
    \/ /\ r = 2
       /\ Done(1) /\ req[1].op = "create_row" /\ resp[1].status = 200
       /\ ArriveFrom(r, {"create_row"}, {req[1].table_name},
                     BodiesFor(req[1].table_name) \cap PlainPayloads,
                     {""}, Tokens \ {NoCookie}, MaxRows + 1)

StepCreate(r) ==
    \/ CreateRowCheck(r) \/ CreateRowPrimaryKey(r) \/ CreateRowCoerce(r)
    \/ CreateRowNextId(r) \/ CreateRowInsert(r) \/ CreateRowLog(r)

NextConsecutive ==
    \/ \E r \in Req : ArriveConsecutive(r)
    \/ \E r \in Req : StepCreate(r)

\* Two consecutive creates on an empty table that has a primary key, and
\* no other client.
SpecConsecutive == Init /\ [][NextConsecutive]_vars

---------------------------------------------------------------------------
(* Concurrent creates on the keyed table                                   *)

\* an empty body, a body the INSERT accepts, a body it rejects
ConcurrentPayloads == {1, 2, 11}

ArriveCreateKeyed(r) ==
    ArriveFrom(r, {"create_row"}, {"phc_items_t"}, ConcurrentPayloads, {""},
               Tokens \ {NoCookie}, MaxRows + 1)

NextConcurrent ==
    \/ \E r \in Req : ArriveCreateKeyed(r)
    \/ \E r \in Req : HandleCreate(r)

\* Create requests on the same table, their steps interleaved at every
\* await.
SpecConcurrent == Init /\ [][NextConcurrent]_vars

---------------------------------------------------------------------------
(* get_dropdown_options, step by step                                      *)

\* Bounds of the lookup inputs.
MaxRegistry == 3    \* longest registry list
MaxColumns == 3     \* most columns of a target table

FkColumns == {"pit_app_id", "pus_dept_id", "pnt_item_id", "pcp_company_id"}

RegistryPool ==
    {"phc_app_t", "phc_apps_t", "phc_item_t", "phc_items_t",
     "phc_companies_t"}

ColumnPool == {"pap_app_id", "pap_code", "pap_app_name", "pap_detail"}

\* the lists without repetition of at most n members of pool
Lists(pool, n) ==
    UNION {{l \in [1..k -> pool] : \A i, j \in 1..k : l[i] = l[j] => i = j}
              : k \in 0..n}

InitLookup ==
    /\ catalog = Tables
    /\ db = [t \in Tables |-> EmptyBag]
    /\ pc = [r \in Req |-> "idle"]
    /\ req = [r \in Req |-> NoRequest]
    /\ loc = [r \in Req |-> NoLocals]
    /\ resp = [r \in Req |-> NoResponse]
    /\ fk_column_name \in FkColumns
    /\ registry \in Lists(RegistryPool, MaxRegistry)
    /\ target_columns \in Lists(ColumnPool, MaxColumns)
    /\ all_tables = << >> /\ target_table = None /\ col_names = << >>
    /\ pk_col = None /\ label_col = None /\ options = None
    /\ lpc = "start"

\* except: return None
LookupFails ==
    /\ lpc \in {"start", "columns", "rows"}
    /\ lpc = "start" => ManualMap(Entity(fk_column_name)) = None
    /\ lpc' = "done"
    /\ options' = None
    /\ UNCHANGED <<fk_column_name, registry, target_columns, all_tables,
                   target_table, col_names, pk_col, label_col, crudVars>>

\* target_table = manual_map.get(entity); without an override,
\* all_tables = await get_allowed_tables(conn) and the scan;
\* if not target_table: return None
LookupResolve ==
    /\ lpc = "start"
    /\ all_tables' = IF ManualMap(Entity(fk_column_name)) # None THEN << >>
                     ELSE registry
    /\ target_table' = TargetTable(fk_column_name, registry)
    /\ IF target_table' = None
       THEN lpc' = "done" /\ options' = None
       ELSE lpc' = "columns" /\ UNCHANGED options
    /\ UNCHANGED <<fk_column_name, registry, target_columns, col_names,
                   pk_col, label_col, crudVars>>

\* cols = await conn.fetch(<column names of target_table>)
\* pk_col = ...; label_col = ...; if not pk_col: return None
LookupColumns ==
    /\ lpc = "columns"
    /\ col_names' = target_columns
    /\ pk_col' = PkCol(target_columns)
    /\ label_col' = LabelCol(target_columns)
    /\ IF pk_col' = None
       THEN lpc' = "done" /\ options' = None
       ELSE lpc' = "rows" /\ UNCHANGED options
    /\ UNCHANGED <<fk_column_name, registry, target_columns, all_tables,
                   target_table, crudVars>>

\* rows = await conn.fetch("SELECT pk_col, label_col FROM target_table
\*                          ORDER BY label_col LIMIT 100"); return [...]
LookupRows ==
    /\ lpc = "rows"
    /\ lpc' = "done"
    /\ options' = "rows"
    /\ UNCHANGED <<fk_column_name, registry, target_columns, all_tables,
                   target_table, col_names, pk_col, label_col, crudVars>>

NextLookup == LookupResolve \/ LookupColumns \/ LookupRows \/ LookupFails

\* One call of get_dropdown_options for every column name, registry list
\* and target column list within the bounds.
SpecLookup == InitLookup /\ [][NextLookup]_vars

---------------------------------------------------------------------------
(* Properties                                                              *)


\* no two rows of a keyed table share a key
NoDuplicateKeys ==
    \A t \in Tables :
        PrimaryKey(t) # None =>
            \A row \in Rows(t) :
                /\ CopiesIn(row, db[t]) = 1
                /\ \A other \in Rows(t) :
                       other[PrimaryKey(t)] = row[PrimaryKey(t)] => other = row

\* C1: a request whose table name is not in the list get_allowed_tables
\* returned to it ends at once with status 400 and has run no statement on
\* the named table; and that list is the catalog as it is when the request
\* reads it, so a table dropped before the request is rejected.
C1_RegistryGate ==
    [][\A r \in Req :
          /\ (pc[r] = "allowed" /\ loc'[r].allowed # Unset)
                => loc'[r].allowed = catalog
          /\ (loc'[r].allowed # Unset
                /\ req'[r].table_name \notin loc'[r].allowed)
                => /\ pc'[r] = "done"
                   /\ resp'[r].status = 400
                   /\ loc'[r].stmts = {}]_vars

\* a request for a table that was dropped before it arrived is answered 400
C1_Witness ==
    \E r \in Req :
        /\ Done(r)
        /\ req[r].table_name \in Tables
        /\ loc[r].allowed # Unset
        /\ req[r].table_name \notin loc[r].allowed
        /\ resp[r].status = 400

\* the columns the client may not set: the key and the audit columns
ClientProtected(k, pk) ==
    \/ pk # None /\ k = pk
    \/ EndsWith(k, "_created") \/ EndsWith(k, "_modified")
    \/ EndsWith(k, "_created_by") \/ EndsWith(k, "_modified_by")

\* values a client may send for a protected column
ClientValues ==
    {NullV, StrV(""), StrV("eve"), StrV("2024-02-30"), StrV("7"), IntV(5)}

\* the payloads that name the fields of d in the same order and differ from
\* d at most in the values of protected columns
Variants(d, pk) ==
    {[i \in 1..Len(d) |->
         <<d[i][1],
           IF ClientProtected(d[i][1], pk) THEN f[i] ELSE d[i][2]>>]
       : f \in [1..Len(d) -> ClientValues]}

\* what create_row hands to the INSERT for payload d on table t as it is now
CleanFor(d, schema, pk, t) ==
    LET c == Coerce(d, 1, schema, pk, << >>)
    IN  IF pk = None THEN InjectActors(schema, 1, c.clean_data)
        ELSE InjectActors(schema, 1,
                DictSet(c.clean_data, pk, IntV(NextId(SelectMax(t, pk)))))

\* C2: when create_row reaches its INSERT, the columns and values it names
\* are those it would name for any payload that differs only in the values
\* of the key and audit columns; the key is the next id, every audit-actor
\* column of the schema is 'System', no audit-timestamp column is named.
C2_ProtectedColumns ==
    [][\A r \in Req :
          (req[r].op = "create_row" /\ pc[r] \in {"schema", "max"}
              /\ pc'[r] = "insert")
          => LET pk == loc'[r].pk_column
                 cd == loc'[r].clean_data
                 schema == loc'[r].schema_map
                 t == req[r].table_name
             IN  /\ \A e \in Variants(RequestJson(r), pk) :
                       /\ Coerce(e, 1, schema, pk, << >>).error = ""
                       /\ Coerce(e, 1, schema, pk, << >>).raised = ""
                       /\ cd = CleanFor(e, schema, pk, t)
                 /\ pk # None =>
                       /\ pk \in Keys(cd)
                       /\ cd[Get(cd, pk)][2]
                            = IntV(IF Rows(t) = {} THEN 1
                                   ELSE SelectMax(t, pk).n + 1)
                 /\ \A i \in 1..Len(schema) :
                       (\/ EndsWith(schema[i].column_name, "_created_by")
                        \/ EndsWith(schema[i].column_name, "_modified_by"))
                       => /\ schema[i].column_name \in Keys(cd)
                          /\ cd[Get(cd, schema[i].column_name)][2]
                               = StrV("System")
                 /\ \A k \in Keys(cd) :
                       ~(EndsWith(k, "_created") \/ EndsWith(k, "_modified"))
      ]_vars

\* a create whose payload names a key, an audit timestamp and an audit
\* actor is at its INSERT with the system's key and actor, no timestamp
C2_Witness ==
    \E r \in Req :
        /\ pc[r] = "insert"
        /\ req[r].op = "create_row"
        /\ loc[r].pk_column # None
        /\ {loc[r].pk_column, "pit_created", "pit_created_by"}
              \subseteq Keys(RequestJson(r))
        /\ RequestJson(r)[Get(RequestJson(r), loc[r].pk_column)][2] = IntV(7)
        /\ loc[r].clean_data[Get(loc[r].clean_data, loc[r].pk_column)][2]
              = IntV(1)
        /\ loc[r].clean_data[Get(loc[r].clean_data, "pit_created_by")][2]
              = StrV("System")
        /\ "pit_created" \notin Keys(loc[r].clean_data)

\* r's INSERT was accepted by the database
Accepted(r) == pc[r] = "log" \/ (Done(r) /\ resp[r].status = 200)

\* the key create_row r assigned to its row
AssignedKey(r) == loc[r].clean_data[Get(loc[r].clean_data, loc[r].pk_column)][2]

\* C3 as stated: with no concurrent writer, a successful create on a table
\* that has a primary key inserts one row whose key is 1 on an empty table
\* and the greatest key plus one otherwise; two consecutive creates on an
\* empty table are given the keys 1 and then 2; and no two rows share a key.
C3_NextKey ==
    [][/\ \A r \in Req :
            LET t == req[r].table_name
            IN  (req[r].op = "create_row" /\ pc[r] = "insert"
                    /\ Accepted(r)' /\ PrimaryKey(t) # None)
                => LET added == BagToSet(db'[t]) \ Rows(t)
                   IN  /\ Cardinality(added) = 1
                       /\ BagCardinality(db'[t]) = RowCount(t) + 1
                       /\ \A row \in added :
                             row[PrimaryKey(t)]
                               = IntV(IF Rows(t) = {} THEN 1
                                      ELSE SelectMax(t, PrimaryKey(t)).n + 1)
       /\ NoDuplicateKeys'
       /\ (Accepted(1)' /\ Accepted(2)')
             => (AssignedKey(1)' = IntV(1) /\ AssignedKey(2)' = IntV(2))
      ]_vars

\* r and q are creates on the same table that ran their INSERT with the
\* same key
SameNextId(r, q) ==
    /\ r # q
    /\ req[r].op = "create_row" /\ req[q].op = "create_row"
    /\ req[r].table_name = req[q].table_name
    /\ "INSERT" \in loc[r].stmts /\ "INSERT" \in loc[q].stmts
    /\ loc[r].pk_column # None /\ loc[q].pk_column = loc[r].pk_column
    /\ loc[r].clean_data[Get(loc[r].clean_data, loc[r].pk_column)]
         = loc[q].clean_data[Get(loc[q].clean_data, loc[q].pk_column)]

\* r ended with the handler's own 500 response carrying an error message
StorageFailed(r) ==
    /\ Done(r)
    /\ resp[r].kind = "json"
    /\ resp[r].status = 500
    /\ resp[r].body.error # ""

DuplicateKey == "duplicate key value violates unique constraint"

\* C4 as stated: of two concurrent creates that computed the same next id,
\* exactly one INSERT is accepted and the other request ends with the 500
\* response.
C4_ExactlyOneAccepted ==
    \A r, q \in Req :
        (SameNextId(r, q) /\ Done(r) /\ Done(q))
        => \/ Accepted(r) /\ StorageFailed(q)
           \/ Accepted(q) /\ StorageFailed(r)

\* C4 amended: of two concurrent creates that computed the same next id,
\* the database accepts at most one INSERT; every INSERT it did not accept
\* ends its request with the handler's 500 response; unless an INSERT
\* failed for a reason other than the duplicate key, exactly one was
\* accepted; and the table never holds a key twice.
C4_ConcurrentCreates ==
    /\ NoDuplicateKeys
    /\ \A r, q \in Req :
          SameNextId(r, q)
          => /\ ~(Accepted(r) /\ Accepted(q))
             /\ ~Accepted(r) => StorageFailed(r)
             /\ (~Accepted(r) /\ ~Accepted(q))
                   => \/ resp[r].body.error # DuplicateKey
                      \/ resp[q].body.error # DuplicateKey

\* both requests read the same MAX of a table that is not empty; one INSERT
\* went in, the other request got the duplicate-key failure as a 500
C4_Witness ==
    \E r, q \in Req :
        /\ SameNextId(r, q)
        /\ AssignedKey(r) = IntV(2)
        /\ Done(r) /\ resp[r].status = 200
        /\ StorageFailed(q)
        /\ resp[q].body.error = DuplicateKey

\* the field is declared a date and carries text strptime does not accept
BadDateField(schema, k, v) ==
    TypeOf(schema, k) = "date" /\ v.tag = "str" /\ ~StrptimeOk(v.s)

\* r was rejected as a client error and ran no INSERT
Rejected400(r) ==
    /\ Done(r)
    /\ resp[r].kind = "json"
    /\ resp[r].status = 400
    /\ "INSERT" \notin loc[r].stmts

\* field i of body d is, for table t, an unparsable text for a date column
\* that the coercer does not drop: the text is not empty and the column is
\* neither the key nor an audit column
KeptBadDate(t, d, i) ==
    /\ BadDateField(Columns(t), d[i][1], d[i][2])
    /\ d[i][2].s # ""
    /\ ~ClientProtected(d[i][1], PrimaryKey(t))

\* C5 as stated, for the date fields create_row does not drop: a create
\* whose body carries, in such a field, a text that is not a calendar date
\* is rejected with 400 "Invalid date" and runs no INSERT, whatever its
\* other fields and their order -- once its catalog reads have succeeded.
C5_KeptBadDateRejected ==
    \A r \in Req :
        (/\ req[r].op = "create_row"
         /\ req[r].data # NoBody
         /\ Done(r)
         /\ resp[r] # Unhandled(ConnectionError)
         /\ \E i \in 1..Len(RequestJson(r)) :
               KeptBadDate(req[r].table_name, RequestJson(r), i))
        => /\ Rejected400(r)
           /\ StartsWith(resp[r].body.error, "Invalid date: ")

\* no field of the payload survives the coercer's `continue`
NoUsableField(d, pk) ==
    \A i \in 1..Len(d) :
        \/ d[i][2] = StrV("") \/ d[i][2] = NullV
        \/ ClientProtected(d[i][1], pk)

\* C6 as stated: a create whose payload yields no usable field never has
\* its INSERT accepted and never answers success.
C6_EmptyPayloadRejected ==
    \A r \in Req :
        (req[r].op = "create_row"
            /\ req[r].data # NoBody
            /\ NoUsableField(RequestJson(r), loc[r].pk_column))
        => ~Accepted(r)

\* the DELETE of r matched no row and r answered success
DeletedNothing(r) ==
    /\ req[r].op = "delete_row"
    /\ Done(r)
    /\ "DELETE" \in loc[r].stmts
    /\ resp[r].status = 200
    /\ loc[r].affected = 0

\* C7 as stated: the success response of a delete that matched no row
\* reports zero affected rows.
C7_ReportsZeroAffected ==
    \A r \in Req :
        DeletedNothing(r)
        => \E k \in DOMAIN resp[r].body : resp[r].body[k] = "0"

\* C8 as stated: no create or delete ends with the exception of a storage
\* call leaving the handler.
C8_NoUnhandledFault ==
    \A r \in Req :
        (req[r].op \in {"create_row", "delete_row"} /\ Done(r)
            /\ resp[r].kind = "unhandled")
        => resp[r].body.exception \in {ValueError, AttributeError}

\* positions of create_row and delete_row before their try block
BeforeTry == {"allowed", "pk", "schema", "max"}

\* the response is the handler's own 500 with an error message
StructuredFailure(response) ==
    /\ response.kind = "json"
    /\ response.status = 500
    /\ response.body.error # ""

\* C8 amended: in create and delete, a request that ends inside the try
\* block -- at the conversion of the key, at the INSERT or DELETE, or in
\* log_action -- ends with the handler's own response: success, or 500
\* with the underlying message; a key that cannot be converted gives that
\* 500 and no DELETE; a failure of log_action leaves the success response;
\* and a request that ends before the try block (catalog reads, SELECT
\* MAX, key-type lookup) ends with a 400 or with an exception that leaves
\* the handler, having run no INSERT or DELETE.
C8_WriteBoundary ==
    [][\A r \in Req :
          (req[r].op \in Writers /\ pc[r] # "idle" /\ ~Done(r) /\ Done(r)')
          => /\ pc[r] \in BeforeTry
                  => /\ \/ resp'[r].kind = "unhandled"
                        \/ resp'[r].kind = "json" /\ resp'[r].status = 400
                     /\ loc'[r].stmts \cap {"INSERT", "DELETE"} = {}
             /\ pc[r] \in {"insert", "delete"}
                  => /\ resp'[r].kind = "json"
                     /\ resp'[r].status = 200 \/ StructuredFailure(resp'[r])
                     /\ loc'[r].logged = "failed" => resp'[r].status = 200
             /\ pc[r] = "coltype"
                  => /\ IF /\ loc'[r].col_type \in NumericTypes
                           /\ ~PyIntOk(req[r].pk_val)
                        THEN resp'[r] = Json(500, [error |-> ValueError])
                        ELSE resp'[r].kind = "unhandled"
                     /\ "DELETE" \notin loc'[r].stmts
                     /\ db' = db
             /\ pc[r] = "log"
                  => /\ resp'[r].kind = "json" /\ resp'[r].status = 200
                     /\ loc'[r].logged \in {"logged", "failed"}
             /\ (resp'[r].kind = "json" /\ resp'[r].status = 200)
                  => loc'[r].logged # "not called"
      ]_vars

\* a create went in and log_action failed, and the response is success; a
\* delete whose key is no number ended with the 500 and sent no DELETE
C8_Witness ==
    \E r, q \in Req :
        /\ Done(r)
        /\ req[r].op = "create_row"
        /\ "INSERT" \in loc[r].stmts
        /\ loc[r].logged = "failed"
        /\ resp[r].status = 200
        /\ Done(q)
        /\ req[q].op = "delete_row"
        /\ resp[q] = Json(500, [error |-> ValueError])
        /\ loc[q].stmts = {}

\* the candidates of naive pluralization, written out
Pluralizations(entity) ==
    {t \in RegistryPool \cup Range(registry) :
        \/ t = "phc_" \o entity \o "_t"
        \/ t = "phc_" \o entity \o "s_t"
        \/ t = "phc_" \o entity \o "es_t"
        \/ /\ EndsWith(entity, "y")
           /\ t = "phc_" \o SubSeq(entity, 1, Len(entity) - 1) \o "ies_t"}

\* C9: once the target is resolved, it is the override's table whenever the
\* entity has an override, whatever the registry holds and in whatever
\* order; without an override it is the first registry entry among the
\* pluralizations, or None when there is none.
C9_OverrideFirst ==
    lpc \in {"columns", "rows"} \/ (lpc = "done" /\ all_tables = registry)
    => LET entity == Entity(fk_column_name)
       IN  IF ManualMap(entity) # None
           THEN target_table = ManualMap(entity)
           ELSE \/ /\ target_table = None
                   /\ Range(registry) \cap Pluralizations(entity) = {}
                \/ \E i \in 1..Len(registry) :
                      /\ target_table = registry[i]
                      /\ registry[i] \in Pluralizations(entity)
                      /\ \A j \in 1..(i - 1) :
                            registry[j] \notin Pluralizations(entity)

\* "app" has the override phc_apps_t while the registry lists the plain
\* pluralization phc_app_t first: the target is the override's table
C9_Witness ==
    /\ lpc = "columns"
    /\ fk_column_name = "pit_app_id"
    /\ Len(registry) >= 2
    /\ registry[1] = "phc_app_t"
    /\ registry[2] = "phc_apps_t"
    /\ target_table = "phc_apps_t"

PriorityWords == <<"name", "title", "code", "desc", "description", "detail">>

\* the display column by priority of the substring: the first word of the
\* list that some column contains picks the first column containing it
PriorityLabel(cols, default) ==
    LET hits == {w \in 1..Len(PriorityWords) :
                    \E i \in 1..Len(cols) : Contains(cols[i], PriorityWords[w])}
        best == CHOOSE w \in hits : \A v \in hits : w <= v
        at   == {i \in 1..Len(cols) : Contains(cols[i], PriorityWords[best])}
    IN  IF hits = {} THEN default
        ELSE cols[CHOOSE i \in at : \A j \in at : i <= j]

\* C10 as stated: the display column is chosen by the priority of the
\* substrings name, title, code, desc, description, detail over all the
\* columns, and is the key column when no column contains any of them.
C10_LabelByPriority ==
    lpc = "rows" => label_col = PriorityLabel(col_names, pk_col)

===========================================================================
